---- MODULE Spec2Model ----
(***************************************************************************)
(* Model of the GlucoAI "Diabetes Assistant" (src/src/app.py and           *)
(* src/src/tools.py).  One request at a time is served: either the        *)
(* food-analysis pipeline analyze_food (image -> ingredients -> nutrition  *)
(* -> diabetic impact) or one of the table/threshold tools.                *)
(*                                                                         *)
(* Python strings that the code inspects character by character are        *)
(* sequences of one-character strings.  Formatted messages are records     *)
(* whose "kind" field is the fixed text of the f-string and whose other    *)
(* fields are the interpolated values.                                     *)
(***************************************************************************)
EXTENDS Integers, Sequences, FiniteSets, TLC

VARIABLES
    pc,                \* position of the request being served
    image_or_url,      \* analyze_food: its argument
    encoded,           \* extract_ingredients: the image has been base64-encoded
    ingredients_text,  \* analyze_food: text returned by extract_ingredients
    ingredients_list,  \* analyze_food: parsed ingredient lines
    nutrition_data,    \* analyze_food: one entry per looked-up ingredient
    impact_results,    \* analyze_food: one entry per analysed nutrition entry
    inflight,          \* outbound calls issued and not yet completed
    calls,             \* log of outbound calls: start and end events, in order
    result,            \* value returned to the caller (NoResult until then)
    exception,         \* exception that left the handler ("none" until then)
    tool,              \* the table/threshold tool that was invoked ("none")
    args,              \* its arguments
    out                \* its return value

vars == <<pc, image_or_url, encoded, ingredients_text, ingredients_list,
          nutrition_data, impact_results, inflight, calls, result, exception,
          tool, args, out>>

foodVars == <<image_or_url, encoded, ingredients_text, ingredients_list,
              nutrition_data, impact_results, inflight, calls>>

toolVars == <<tool, args, out>>

----------------------------------------------------------------------------
(* Bounds of the model.                                                    *)

MaxText == 3        \* longest vision-model response, in characters
MaxNutrients == 2   \* most foodNutrients entries of the first search hit
MaxFoods == 2       \* most entries of the "foods" list of a search response

----------------------------------------------------------------------------
(* Python str primitives, on sequences of characters.                      *)

Whitespace == {" ", "\n"}

Digits == {"0", "1", "2", "3", "4", "5", "6", "7", "8", "9"}

RECURSIVE lstrip(_)
lstrip(s) ==
    IF s = <<>> THEN s
    ELSE IF Head(s) \in Whitespace THEN lstrip(Tail(s)) ELSE s

RECURSIVE rstrip(_)
rstrip(s) ==
    IF s = <<>> THEN s
    ELSE IF s[Len(s)] \in Whitespace THEN rstrip(SubSeq(s, 1, Len(s) - 1)) ELSE s

strip(s) == rstrip(lstrip(s))

startswith(s, prefix) ==
    /\ Len(s) >= Len(prefix)
    /\ SubSeq(s, 1, Len(prefix)) = prefix

\* s[n:] with Python's 0-based n
slice_from(s, n) == SubSeq(s, n + 1, Len(s))

RECURSIVE splitAcc(_, _, _, _)
splitAcc(s, sep, cur, acc) ==
    IF s = <<>> THEN <<acc, cur>>
    ELSE IF Head(s) = sep THEN splitAcc(Tail(s), sep, <<>>, Append(acc, cur))
    ELSE splitAcc(Tail(s), sep, Append(cur, Head(s)), acc)

\* str.splitlines(): a final line break opens no further line
splitlines(s) ==
    LET r == splitAcc(s, "\n", <<>>, <<>>)
    IN  IF r[2] = <<>> THEN r[1] ELSE Append(r[1], r[2])

\* str.split(sep): always at least one piece
split(s, sep) ==
    LET r == splitAcc(s, sep, <<>>, <<>>)
    IN  Append(r[1], r[2])

----------------------------------------------------------------------------
(* analyze_food, step 2: the ingredient-line parser.                        *)

Ok(v) == [raised |-> FALSE, value |-> v]

Raise(e) == [raised |-> TRUE, value |-> e]

RECURSIVE parse_lines(_, _)
parse_lines(lines, ingredients) ==
    IF lines = <<>> THEN Ok(ingredients)
    ELSE
        LET line == strip(Head(lines))
            rest == Tail(lines)
        IN  IF line = <<>> THEN parse_lines(rest, ingredients)
            ELSE IF startswith(line, <<"*", " ">>)
                 THEN parse_lines(rest, Append(ingredients, strip(slice_from(line, 2))))
            ELSE IF line[1] \in Digits
                 THEN IF Len(line) < 2 THEN Raise("IndexError")
                      ELSE IF line[2] \in {".", ")"}
                           THEN parse_lines(rest, Append(ingredients, strip(slice_from(line, 2))))
                           ELSE parse_lines(rest, Append(ingredients, line))
            ELSE parse_lines(rest, Append(ingredients, line))

parse_ingredients(text) == parse_lines(splitlines(text), <<>>)

----------------------------------------------------------------------------
(* tools.py: nutrition_lookup.  A search response is                       *)
(*   [error, status, has_foods, foods]                                     *)
(* error: the exception requests.get raises ("none" when it returns),      *)
(* status: the HTTP status, has_foods/foods: the "foods" key of the JSON   *)
(* body.  A food is [description, has_foodNutrients, foodNutrients]; a     *)
(* nutrient entry is [nutrientName, has_value, value].                     *)

NoData(food_name) == [kind |-> "No USDA data found for", name |-> food_name]

\* {n["nutrientName"]: n.get("value", 0) for n in entries}: a later entry
\* of the same name replaces an earlier one
RECURSIVE nutrients_dict(_, _)
nutrients_dict(entries, d) ==
    IF entries = <<>> THEN d
    ELSE LET n == Head(entries)
             v == IF n.has_value THEN n.value ELSE 0
             keys == DOMAIN d \cup {n.nutrientName}
         IN  nutrients_dict(Tail(entries),
                 [k \in keys |-> IF k = n.nutrientName THEN v ELSE d[k]])

EmptyDict == [k \in {} |-> 0]

\* dict.get(key, default)
dict_get(d, key, default) == IF key \in DOMAIN d THEN d[key] ELSE default

\* faulty variant: the last search hit is taken instead of the first
last_food(foods) == foods[Len(foods)]

first_food(foods) == foods[1]

nutrition_record(food) ==
    LET nutrients == nutrients_dict(
                         IF food.has_foodNutrients THEN food.foodNutrients ELSE <<>>,
                         EmptyDict)
    IN  [kind     |-> "record",
         food     |-> food.description,
         calories |-> dict_get(nutrients, "Energy", 0),
         carbs    |-> dict_get(nutrients, "Carbohydrate, by difference", 0),
         sugar    |-> dict_get(nutrients, "Sugars, total including NLEA", 0),
         fat      |-> dict_get(nutrients, "Total lipid (fat)", 0),
         protein  |-> dict_get(nutrients, "Protein", 0),
         fiber    |-> dict_get(nutrients, "Fiber, total dietary", 0)]

\* faulty variant: only the presence of the "foods" key is tested, so an empty list
\* reaches the [0] subscript
nutrition_lookup_key_only(food_name, response) ==
    IF response.error # "none" THEN Raise(response.error)
    ELSE IF response.status >= 400 THEN Raise("HTTPError")
    ELSE IF ~response.has_foods THEN Ok(NoData(food_name))
    ELSE IF response.foods = <<>> THEN Raise("IndexError")
    ELSE Ok(nutrition_record(first_food(response.foods)))

nutrition_lookup(food_name, response) ==
    IF response.error # "none" THEN Raise(response.error)
    ELSE IF response.status >= 400 THEN Raise("HTTPError")
    ELSE IF ~response.has_foods \/ response.foods = <<>> THEN Ok(NoData(food_name))
    ELSE Ok(nutrition_record(first_food(response.foods)))

(* tools.py: diabetic_impact.  The language model either answers with free *)
(* text about the prompt's nutrition data or the SDK call raises.          *)

ImpactText(nutrition_json) == [kind |-> "impact", about |-> nutrition_json]

diabetic_impact(nutrition_json, reply) ==
    IF reply = "ok" THEN Ok(ImpactText(nutrition_json)) ELSE Raise(reply)

----------------------------------------------------------------------------
(* Inputs of the food-analysis pipeline.                                   *)

UrlInput == <<"h", "t", "t", "p", ":", "/", "/", "u">>
HttpNamedFile == <<"h", "t", "t", "p", "d">>     \* a local file named "httpd"
LocalFile == <<"a", ".", "j", "p", "g">>
MissingFile == <<"b", ".", "j", "p", "g">>

ImageInputs == {UrlInput, HttpNamedFile, LocalFile, MissingFile}

\* the paths os.path.isfile answers True for
Files == {HttpNamedFile, LocalFile}

Alphabet == {"a", " ", "*", "1", ".", ")", "\n"}

Texts == UNION {[1..n -> Alphabet] : n \in 0..MaxText}

SampleFood ==
    [description |-> "APPLE", has_foodNutrients |-> TRUE,
     foodNutrients |-> <<[nutrientName |-> "Energy", has_value |-> TRUE, value |-> 2]>>]

FoundResponse == [error |-> "none", status |-> 200, has_foods |-> TRUE, foods |-> <<SampleFood>>]
EmptyResponse == [error |-> "none", status |-> 200, has_foods |-> TRUE, foods |-> <<>>]
ErrorResponse == [error |-> "none", status |-> 500, has_foods |-> FALSE, foods |-> <<>>]

PipelineResponses == {FoundResponse, EmptyResponse, ErrorResponse}

ModelReplies == {"ok", "ApiRequestFailure"}

NoResult == [kind |-> "no result"]

UsdaError(item, e) == [kind |-> "USDA API error for", item |-> item, e |-> e]

ImpactError(data, e) == [kind |-> "Error analyzing impact for", data |-> data, e |-> e]

StartEv(op, i) == [ev |-> "start", op |-> op, i |-> i, raised |-> "none"]

EndEv(op, i, e) == [ev |-> "end", op |-> op, i |-> i, raised |-> e]

----------------------------------------------------------------------------
(* State after start-up: no request is being served.                       *)

Init ==
    /\ pc = "idle"
    /\ image_or_url = <<>>
    /\ encoded = FALSE
    /\ ingredients_text = <<>>
    /\ ingredients_list = <<>>
    /\ nutrition_data = <<>>
    /\ impact_results = <<>>
    /\ inflight = {}
    /\ calls = <<>>
    /\ result = NoResult
    /\ exception = "none"
    /\ tool = "none"
    /\ args = <<>>
    /\ out = NoResult

Issue(op, i) ==
    /\ inflight' = inflight \cup {<<op, i>>}
    /\ calls' = Append(calls, StartEv(op, i))

Complete(op, i, e) ==
    /\ inflight' = inflight \ {<<op, i>>}
    /\ calls' = Append(calls, EndEv(op, i, e))

Propagate(e) ==
    /\ pc' = "raised"
    /\ exception' = e

----------------------------------------------------------------------------
(* handle_food_input -> analyze_food -> extract_ingredients.               *)

AnalyzeFood ==
    /\ pc = "idle"
    /\ \E img \in ImageInputs : image_or_url' = img
    /\ pc' = "extract"
    /\ UNCHANGED <<encoded, ingredients_text, ingredients_list, nutrition_data,
                   impact_results, inflight, calls, result, exception, toolVars>>

\* requests.get(image_input) is issued for an input that starts with "http"
FetchImageCall ==
    /\ pc = "extract"
    /\ startswith(image_or_url, <<"h", "t", "t", "p">>)
    /\ Issue("image_get", 0)
    /\ pc' = "fetching"
    /\ UNCHANGED <<image_or_url, encoded, ingredients_text, ingredients_list,
                   nutrition_data, impact_results, result, exception, toolVars>>

\* requests.get returns or raises; raise_for_status raises on an HTTP error
FetchImageReturn ==
    /\ pc = "fetching"
    /\ \E e \in {"none", "ConnectionError", "HTTPError"} :
          /\ Complete("image_get", 0, e)
          /\ IF e = "none" THEN pc' = "encode" /\ UNCHANGED exception
             ELSE Propagate(e)
    /\ UNCHANGED <<image_or_url, encoded, ingredients_text, ingredients_list,
                   nutrition_data, impact_results, result, toolVars>>

\* faulty variant: the os.path.isfile test is missing
FileNotFoundUnchecked ==
    /\ pc = "extract"
    /\ ~startswith(image_or_url, <<"h", "t", "t", "p">>)
    /\ image_or_url \notin Files
    /\ pc' = "encode"
    /\ UNCHANGED <<foodVars, result, exception, toolVars>>

FileNotFound ==
    /\ pc = "extract"
    /\ ~startswith(image_or_url, <<"h", "t", "t", "p">>)
    /\ image_or_url \notin Files
    /\ Propagate("FileNotFoundError")
    /\ UNCHANGED <<foodVars, result, toolVars>>

ReadFile ==
    /\ pc = "extract"
    /\ ~startswith(image_or_url, <<"h", "t", "t", "p">>)
    /\ image_or_url \in Files
    /\ pc' = "encode"
    /\ UNCHANGED <<foodVars, result, exception, toolVars>>

\* base64 encoding, then model.chat is issued
VisionCall ==
    /\ pc = "encode"
    /\ encoded' = TRUE
    /\ Issue("vision", 0)
    /\ pc' = "vision"
    /\ UNCHANGED <<image_or_url, ingredients_text, ingredients_list, nutrition_data,
                   impact_results, result, exception, toolVars>>

VisionReturn ==
    /\ pc = "vision"
    /\ \E text \in Texts : ingredients_text' = text
    /\ Complete("vision", 0, "none")
    /\ pc' = "parse"
    /\ UNCHANGED <<image_or_url, encoded, ingredients_list, nutrition_data,
                   impact_results, result, exception, toolVars>>

VisionRaise ==
    /\ pc = "vision"
    /\ Complete("vision", 0, "ApiRequestFailure")
    /\ Propagate("ApiRequestFailure")
    /\ UNCHANGED <<image_or_url, encoded, ingredients_text, ingredients_list,
                   nutrition_data, impact_results, result, toolVars>>

----------------------------------------------------------------------------
(* analyze_food, steps 2 to 4 and the return.                              *)

ParseIngredients ==
    /\ pc = "parse"
    /\ LET r == parse_ingredients(ingredients_text)
       IN  IF r.raised
           THEN Propagate(r.value) /\ UNCHANGED ingredients_list
           ELSE /\ ingredients_list' = r.value
                /\ pc' = "lookup"
                /\ UNCHANGED exception
    /\ UNCHANGED <<image_or_url, encoded, ingredients_text, nutrition_data,
                   impact_results, inflight, calls, result, toolVars>>

\* for item in ingredients_list: the next item's nutrition_lookup is issued
LookupCall ==
    /\ pc = "lookup"
    /\ Len(nutrition_data) < Len(ingredients_list)
    /\ Issue("lookup", Len(nutrition_data) + 1)
    /\ pc' = "lookup_wait"
    /\ UNCHANGED <<image_or_url, encoded, ingredients_text, ingredients_list,
                   nutrition_data, impact_results, result, exception, toolVars>>

\* faulty variant: the lookup is not wrapped in try/except
LookupReturnUncaught ==
    /\ pc = "lookup_wait"
    /\ \E response \in PipelineResponses :
          LET i == Len(nutrition_data) + 1
              item == ingredients_list[i]
              r == nutrition_lookup(item, response)
          IN  /\ Complete("lookup", i, IF r.raised THEN r.value ELSE "none")
              /\ IF r.raised
                 THEN Propagate(r.value) /\ UNCHANGED nutrition_data
                 ELSE /\ nutrition_data' = Append(nutrition_data, r.value)
                      /\ pc' = "lookup"
                      /\ UNCHANGED exception
    /\ UNCHANGED <<image_or_url, encoded, ingredients_text, ingredients_list,
                   impact_results, result, toolVars>>

\* faulty variant: the outcome is inserted at the front of nutrition_data
LookupReturnPrepends ==
    /\ pc = "lookup_wait"
    /\ \E response \in PipelineResponses :
          LET i == Len(nutrition_data) + 1
              item == ingredients_list[i]
              r == nutrition_lookup(item, response)
          IN  /\ Complete("lookup", i, IF r.raised THEN r.value ELSE "none")
              /\ nutrition_data' =
                     <<IF r.raised THEN UsdaError(item, r.value) ELSE r.value>>
                         \o nutrition_data
    /\ pc' = "lookup"
    /\ UNCHANGED <<image_or_url, encoded, ingredients_text, ingredients_list,
                   impact_results, result, exception, toolVars>>

\* try: result = nutrition_lookup(item) / except Exception as e: error string
LookupReturn ==
    /\ pc = "lookup_wait"
    /\ \E response \in PipelineResponses :
          LET i == Len(nutrition_data) + 1
              item == ingredients_list[i]
              r == nutrition_lookup(item, response)
          IN  /\ Complete("lookup", i, IF r.raised THEN r.value ELSE "none")
              /\ nutrition_data' = Append(nutrition_data,
                     IF r.raised THEN UsdaError(item, r.value) ELSE r.value)
    /\ pc' = "lookup"
    /\ UNCHANGED <<image_or_url, encoded, ingredients_text, ingredients_list,
                   impact_results, result, exception, toolVars>>

LookupLoopEnd ==
    /\ pc = "lookup"
    /\ Len(nutrition_data) = Len(ingredients_list)
    /\ pc' = "impact"
    /\ UNCHANGED <<foodVars, result, exception, toolVars>>

\* faulty variant: no impact call is made for an entry that is a lookup error string
ImpactCallSkipsErrors ==
    /\ pc = "impact"
    /\ Len(impact_results) < Len(nutrition_data)
    /\ LET data == nutrition_data[Len(impact_results) + 1]
       IN  IF data.kind = "USDA API error for"
           THEN /\ impact_results' = Append(impact_results, ImpactError(data, "skipped"))
                /\ pc' = "impact"
                /\ UNCHANGED <<inflight, calls>>
           ELSE /\ Issue("impact", Len(impact_results) + 1)
                /\ pc' = "impact_wait"
                /\ UNCHANGED impact_results
    /\ UNCHANGED <<image_or_url, encoded, ingredients_text, ingredients_list,
                   nutrition_data, result, exception, toolVars>>

\* for data in nutrition_data: the next entry's diabetic_impact is issued
ImpactCall ==
    /\ pc = "impact"
    /\ Len(impact_results) < Len(nutrition_data)
    /\ Issue("impact", Len(impact_results) + 1)
    /\ pc' = "impact_wait"
    /\ UNCHANGED <<image_or_url, encoded, ingredients_text, ingredients_list,
                   nutrition_data, impact_results, result, exception, toolVars>>

\* try: impact = diabetic_impact(data) / except Exception as e: error string
ImpactReturn ==
    /\ pc = "impact_wait"
    /\ \E reply \in ModelReplies :
          LET i == Len(impact_results) + 1
              data == nutrition_data[i]
              r == diabetic_impact(data, reply)
          IN  /\ Complete("impact", i, IF r.raised THEN r.value ELSE "none")
              /\ impact_results' = Append(impact_results,
                     IF r.raised THEN ImpactError(data, r.value) ELSE r.value)
    /\ pc' = "impact"
    /\ UNCHANGED <<image_or_url, encoded, ingredients_text, ingredients_list,
                   nutrition_data, result, exception, toolVars>>

ReturnResult ==
    /\ pc = "impact"
    /\ Len(impact_results) = Len(nutrition_data)
    /\ result' = [kind |-> "dict",
                  ingredients |-> ingredients_list,
                  nutrition |-> nutrition_data,
                  diabetic_impact |-> impact_results]
    /\ pc' = "done"
    /\ UNCHANGED <<foodVars, exception, toolVars>>

----------------------------------------------------------------------------
(* tools.py: meal_plan_generator, glucose_predictor, grocery_advisor and   *)
(* exercise_recommender.                                                   *)

UpperCase == <<"A", "B", "C", "D", "E", "F", "G", "H", "I", "J", "K", "L", "M",
               "N", "O", "P", "Q", "R", "S", "T", "U", "V", "W", "X", "Y", "Z">>

LowerCase == <<"a", "b", "c", "d", "e", "f", "g", "h", "i", "j", "k", "l", "m",
               "n", "o", "p", "q", "r", "s", "t", "u", "v", "w", "x", "y", "z">>

\* str.lower()
lower(s) ==
    [i \in 1..Len(s) |->
        IF \E j \in 1..26 : UpperCase[j] = s[i]
        THEN LowerCase[CHOOSE j \in 1..26 : UpperCase[j] = s[i]]
        ELSE s[i]]

keto == <<"k", "e", "t", "o">>
vegan == <<"v", "e", "g", "a", "n">>
vegetarian == <<"v", "e", "g", "e", "t", "a", "r", "i", "a", "n">>
low_carb == <<"l", "o", "w", "-", "c", "a", "r", "b">>

sample_meals ==
    [k \in {keto, vegan, vegetarian, low_carb} |->
        IF k = keto
        THEN <<"Egg & spinach scramble", "Grilled chicken salad",
               "Zucchini noodles with pesto", "Almonds & cheese snack">>
        ELSE IF k = vegan
        THEN <<"Oatmeal with berries", "Chickpea salad", "Tofu stir-fry",
               "Hummus & veggies">>
        ELSE IF k = vegetarian
        THEN <<"Greek yogurt with fruits", "Veggie wrap", "Paneer curry with salad",
               "Nuts & seeds">>
        ELSE <<"Avocado egg salad", "Grilled salmon with broccoli",
               "Cauliflower rice stir-fry", "Cheese & cucumber slices">>]

\* faulty variant: the preference is looked up without lower()
meal_plan_generator_case_sensitive(preferences) ==
    LET meals == dict_get(sample_meals, preferences, sample_meals[low_carb])
    IN  [kind |-> "Weekly Meal Plan",
         preferences |-> preferences,
         breakfast |-> meals[1],
         lunch |-> meals[2],
         dinner |-> meals[3],
         snack |-> meals[4]]

meal_plan_generator(preferences) ==
    LET meals == dict_get(sample_meals, lower(preferences), sample_meals[low_carb])
    IN  [kind |-> "Weekly Meal Plan",
         preferences |-> preferences,
         breakfast |-> meals[1],
         lunch |-> meals[2],
         dinner |-> meals[3],
         snack |-> meals[4]]

\* f"{x:.1f}" of a quantity held in tenths: sign, whole part, one decimal
format_1f(tenths) ==
    LET m == IF tenths < 0 THEN -tenths ELSE tenths
    IN  <<IF tenths < 0 THEN "-" ELSE "", m \div 10, m % 10>>

\* quantities in tenths of mg/dL: carbs * 1.5 is carbs * 15 tenths
\* faulty variant: the hours since the last meal are subtracted once, not twice
glucose_predictor_single_decay(carbs, previous_glucose, time_since_last_meal) ==
    LET rise == carbs * 15
        predicted == previous_glucose * 10 + rise - time_since_last_meal * 10
    IN  [kind |-> "Estimated glucose level after meal",
         predicted |-> format_1f(predicted),
         rise |-> format_1f(rise)]

glucose_predictor(carbs, previous_glucose, time_since_last_meal) ==
    LET rise == carbs * 15
        predicted == previous_glucose * 10 + rise - (time_since_last_meal * 2) * 10
    IN  [kind |-> "Estimated glucose level after meal",
         predicted |-> format_1f(predicted),
         rise |-> format_1f(rise)]

predict_glucose_level(carbs, previous_glucose, hours_since_last_meal) ==
    glucose_predictor(carbs, previous_glucose, hours_since_last_meal)

bread == <<"b", "r", "e", "a", "d">>
rice == <<"r", "i", "c", "e">>
soda == <<"s", "o", "d", "a">>
pasta == <<"p", "a", "s", "t", "a">>
sugar == <<"s", "u", "g", "a", "r">>

alternatives ==
    [k \in {bread, rice, soda, pasta, sugar} |->
        IF k = bread THEN "whole grain or almond flour bread"
        ELSE IF k = rice THEN "cauliflower rice"
        ELSE IF k = soda THEN "sparkling water with lemon"
        ELSE IF k = pasta THEN "zucchini noodles or shirataki noodles"
        ELSE "stevia or monk fruit sweetener"]

suggestion(item) ==
    IF item \in DOMAIN alternatives
    THEN [item |-> item, alt |-> alternatives[item]]
    ELSE [item |-> item, alt |-> "No alternative needed"]

\* faulty variant: the items are trimmed but not lower-cased
grocery_advisor_case_sensitive(items) ==
    LET pieces == split(items, ",")
        item_list == [i \in 1..Len(pieces) |-> strip(pieces[i])]
    IN  [kind |-> "Grocery Recommendations:",
         lines |-> [i \in 1..Len(item_list) |-> suggestion(item_list[i])]]

grocery_advisor(items) ==
    LET pieces == split(items, ",")
        item_list == [i \in 1..Len(pieces) |-> lower(strip(pieces[i]))]
    IN  [kind |-> "Grocery Recommendations:",
         lines |-> [i \in 1..Len(item_list) |-> suggestion(item_list[i])]]

Message(text) == [kind |-> "message", text |-> text]

\* faulty variant: the low threshold is inclusive
exercise_recommender_inclusive(current_glucose, fitness_level, duration) ==
    IF current_glucose <= 70
    THEN Message("Glucose is low! Recommend light activity: 10-15 min walking and have a small snack first.")
    ELSE IF current_glucose > 180
    THEN Message("Glucose is high! Avoid intense exercise. Recommend gentle stretching or short walk.")
    ELSE [kind |-> "Glucose safe. Recommend",
          intensity |-> IF fitness_level = "moderate" THEN "moderate" ELSE "light",
          duration |-> duration]

\* duration is the value random.choice([20, 25, 30]) drew
exercise_recommender(current_glucose, fitness_level, duration) ==
    IF current_glucose < 70
    THEN Message("Glucose is low! Recommend light activity: 10-15 min walking and have a small snack first.")
    ELSE IF current_glucose > 180
    THEN Message("Glucose is high! Avoid intense exercise. Recommend gentle stretching or short walk.")
    ELSE [kind |-> "Glucose safe. Recommend",
          intensity |-> IF fitness_level = "moderate" THEN "moderate" ELSE "light",
          duration |-> duration]

----------------------------------------------------------------------------
(* Inputs of the tools.                                                    *)

MaxQty == 4         \* largest small carbs / glucose / hours input
MaxItems == 3       \* most comma-separated grocery items
GlucoseMargin == 10 \* glucose inputs range this far beyond 70 and 180

FoodNames == {<<"a">>, <<"a", " ", "a">>}

NutrientNames ==
    {"Energy", "Carbohydrate, by difference", "Sugars, total including NLEA",
     "Total lipid (fat)", "Protein", "Fiber, total dietary", "Sodium, Na"}

NutrientEntries ==
    {[nutrientName |-> n, has_value |-> TRUE, value |-> v] :
        n \in NutrientNames, v \in {1, 2}}
    \cup {[nutrientName |-> n, has_value |-> FALSE, value |-> 0] : n \in NutrientNames}

FirstFoods ==
    {[description |-> "APPLE", has_foodNutrients |-> TRUE, foodNutrients |-> l] :
        l \in UNION {[1..n -> NutrientEntries] : n \in 0..MaxNutrients}}
    \cup {[description |-> "APPLE", has_foodNutrients |-> FALSE, foodNutrients |-> <<>>]}

OtherFood ==
    [description |-> "PEAR", has_foodNutrients |-> TRUE,
     foodNutrients |-> <<[nutrientName |-> "Protein", has_value |-> TRUE, value |-> 1],
                         [nutrientName |-> "Energy", has_value |-> TRUE, value |-> 1]>>]

LaterFoods == {SampleFood, OtherFood}

FoodLists ==
    {<<>>} \cup
    {<<f>> \o rest : f \in FirstFoods,
                     rest \in UNION {[1..n -> LaterFoods] : n \in 0..(MaxFoods - 1)}}

LookupResponses ==
    {[error |-> "none", status |-> 200, has_foods |-> TRUE, foods |-> fl] : fl \in FoodLists}
    \cup {[error |-> "none", status |-> 200, has_foods |-> FALSE, foods |-> <<>>],
          [error |-> "none", status |-> 404, has_foods |-> FALSE, foods |-> <<>>],
          [error |-> "none", status |-> 500, has_foods |-> TRUE, foods |-> <<SampleFood>>],
          [error |-> "ConnectionError", status |-> 0, has_foods |-> FALSE, foods |-> <<>>]}

Preferences ==
    {keto, vegan, vegetarian, low_carb,
     <<"K", "E", "T", "O">>, <<"V", "e", "g", "a", "n">>,
     <<"V", "E", "G", "E", "T", "A", "R", "I", "A", "N">>,
     <<"L", "o", "w", "-", "C", "a", "r", "b">>,
     <<"p", "a", "l", "e", "o">>, <<"l", "o", "w", "c", "a", "r", "b">>,
     <<" ", "k", "e", "t", "o">>, <<>>}

GroceryItems ==
    {bread, <<" ", "r", "i", "c", "e">>, <<" ", "k", "a", "l", "e">>,
     <<"S", "O", "D", "A", " ">>, <<"P", "a", "s", "t", "a">>, sugar, <<>>}

RECURSIVE join(_, _)
join(parts, sep) ==
    IF Len(parts) = 1 THEN parts[1]
    ELSE parts[1] \o <<sep>> \o join(Tail(parts), sep)

FitnessLevels == {"moderate", "light", "Moderate", "intense"}

----------------------------------------------------------------------------
(* The tools, invoked one at a time from the idle state.                   *)

Invoke(name, a, value) ==
    /\ tool' = name
    /\ args' = a
    /\ out' = value
    /\ pc' = "returned"
    /\ UNCHANGED <<foodVars, result, exception>>

NutritionLookup ==
    /\ pc = "idle"
    /\ \E food_name \in FoodNames, response \in LookupResponses :
           Invoke("nutrition_lookup",
                  [food_name |-> food_name, response |-> response],
                  nutrition_lookup(food_name, response))

PlanMeals ==
    /\ pc = "idle"
    /\ \E preferences \in Preferences :
           Invoke("meal_plan_generator", [preferences |-> preferences],
                  meal_plan_generator(preferences))

PredictGlucose ==
    /\ pc = "idle"
    /\ \E carbs \in 0..MaxQty \cup {40},
          previous_glucose \in 0..MaxQty \cup {100},
          hours_since_last_meal \in 0..MaxQty \cup {3} :
           Invoke("glucose_predictor",
                  [carbs |-> carbs, previous_glucose |-> previous_glucose,
                   hours_since_last_meal |-> hours_since_last_meal],
                  predict_glucose_level(carbs, previous_glucose, hours_since_last_meal))

RecommendGroceries ==
    /\ pc = "idle"
    /\ \E parts \in UNION {[1..n -> GroceryItems] : n \in 1..MaxItems} :
           Invoke("grocery_advisor", [items |-> join(parts, ","), parts |-> parts],
                  grocery_advisor(join(parts, ",")))

RecommendExercise ==
    /\ pc = "idle"
    /\ \E current_glucose \in (70 - GlucoseMargin)..(180 + GlucoseMargin),
          fitness_level \in FitnessLevels,
          duration \in {20, 25, 30} :
           Invoke("exercise_recommender",
                  [current_glucose |-> current_glucose, fitness_level |-> fitness_level],
                  exercise_recommender(current_glucose, fitness_level, duration))

Next ==
    \/ AnalyzeFood
    \/ FetchImageCall
    \/ FetchImageReturn
    \/ FileNotFound
    \/ ReadFile
    \/ VisionCall
    \/ VisionReturn
    \/ VisionRaise
    \/ ParseIngredients
    \/ LookupCall
    \/ LookupReturn
    \/ LookupLoopEnd
    \/ ImpactCall
    \/ ImpactReturn
    \/ ReturnResult
    \/ NutritionLookup
    \/ PlanMeals
    \/ PredictGlucose
    \/ RecommendGroceries
    \/ RecommendExercise

Spec == Init /\ [][Next]_vars

----------------------------------------------------------------------------
(* Properties of the food-analysis pipeline.                               *)

N == Len(ingredients_list)

CallsOf(ops) == SelectSeq(calls, LAMBDA c : c.op \in ops)

StartsOf(ops) == SelectSeq(calls, LAMBDA c : c.ev = "start" /\ c.op \in ops)

Failed(op) == {k \in DOMAIN calls : /\ calls[k].op = op
                                    /\ calls[k].ev = "end"
                                    /\ calls[k].raised # "none"}

Ended(op) == {calls[k].i : k \in {j \in DOMAIN calls : calls[j].op = op /\ calls[j].ev = "end"}}

\* C1: once the ingredient list exists, a raising nutrition_lookup or
\* diabetic_impact never aborts analyze_food: no exception leaves the handler,
\* the failing item's slot holds the inline error string, the loops go on
\* (some step is always possible until the return), and the returned
\* structure has a lookup and an impact outcome for every ingredient.
C1_ItemFailureNeverAborts ==
    /\ CallsOf({"lookup", "impact"}) # <<>> => pc # "raised" /\ exception = "none"
    /\ \A k \in Failed("lookup") :
          LET i == calls[k].i
          IN  /\ i <= Len(nutrition_data)
              /\ nutrition_data[i] = UsdaError(ingredients_list[i], calls[k].raised)
    /\ \A k \in Failed("impact") :
          LET i == calls[k].i
          IN  /\ i <= Len(impact_results)
              /\ impact_results[i] = ImpactError(nutrition_data[i], calls[k].raised)
    /\ pc \in {"lookup", "lookup_wait", "impact", "impact_wait"} => ENABLED Next
    /\ pc = "done" =>
          /\ result.kind = "dict"
          /\ Len(result.nutrition) = N
          /\ Len(result.diabetic_impact) = N
          /\ Ended("lookup") = 1..N
          /\ Ended("impact") = 1..N

\* C1 witness: a returned request of two ingredients in which one lookup
\* raised, another did not, and an impact call raised.
C1_Witness ==
    /\ pc = "done"
    /\ N >= 2
    /\ Failed("lookup") # {}
    /\ Cardinality(Failed("lookup")) < N
    /\ Failed("impact") # {}

\* The entry the parser is said to produce for a trimmed, non-blank line.
HasMarker(t) ==
    /\ Len(t) >= 2
    /\ \/ t[1] = "*" /\ t[2] = " "
       \/ t[1] \in Digits /\ t[2] \in {".", ")"}

ClaimedEntry(t) == IF HasMarker(t) THEN strip(slice_from(t, 2)) ELSE t

RECURSIVE ClaimedEntries(_)
ClaimedEntries(lines) ==
    IF lines = <<>> THEN <<>>
    ELSE IF strip(Head(lines)) = <<>> THEN ClaimedEntries(Tail(lines))
    ELSE <<ClaimedEntry(strip(Head(lines)))>> \o ClaimedEntries(Tail(lines))

TextReturned == \E k \in DOMAIN calls : calls[k] = EndEv("vision", 0, "none")

Parsed == TextReturned /\ pc # "parse"

\* C2: the parser maps the response text to the list holding, in line order,
\* one entry per non-blank line: the trimmed line, its leading "* " or
\* "<digit>." / "<digit>)" marker removed.
C2_ParserYieldsClaimedList ==
    Parsed => /\ pc # "raised"
              /\ ingredients_list = ClaimedEntries(split(ingredients_text, "\n"))

\* Where the parser does return a list, it is the claimed one.
ParserAgreesWhenItReturns ==
    (Parsed /\ pc # "raised") =>
        ingredients_list = ClaimedEntries(split(ingredients_text, "\n"))

ExpectedStarts(n) ==
    <<StartEv("vision", 0)>>
        \o [i \in 1..n |-> StartEv("lookup", i)]
        \o [i \in 1..n |-> StartEv("impact", i)]

IsPrefix(s, t) == Len(s) <= Len(t) /\ s = SubSeq(t, 1, Len(s))

\* C3: a request that parses N ingredients issues one vision call, then the N
\* lookups in list order, then the N impact calls in list order, whatever the
\* lookups' outcomes; every call ends before the next is issued, so at most
\* one is outstanding.
C3_SequentialCallChain ==
    /\ Cardinality(inflight) <= 1
    /\ \A k \in DOMAIN calls :
          calls[k].ev = "start" =>
              IF k = Len(calls) THEN inflight = {<<calls[k].op, calls[k].i>>}
              ELSE /\ calls[k + 1].ev = "end"
                   /\ calls[k + 1].op = calls[k].op
                   /\ calls[k + 1].i = calls[k].i
    /\ IsPrefix(StartsOf({"vision", "lookup", "impact"}), ExpectedStarts(N))
    /\ pc = "done" => /\ StartsOf({"vision", "lookup", "impact"}) = ExpectedStarts(N)
                      /\ inflight = {}

\* C3 witness: a returned request of two ingredients with a failed lookup and
\* a lookup that found no data.
C3_Witness ==
    /\ pc = "done"
    /\ N >= 2
    /\ Failed("lookup") # {}
    /\ \E i \in 1..N : nutrition_data[i].kind = "No USDA data found for"

MissingLocalInput ==
    /\ ~startswith(image_or_url, <<"h", "t", "t", "p">>)
    /\ image_or_url \notin Files

\* C4: with an input that neither starts with "http" nor names an existing
\* file, extract_ingredients raises FileNotFoundError before encoding and
\* before any outbound call, and the error leaves analyze_food: no lookup,
\* no impact call, no result.
C4_MissingFileFailsFirst ==
    (MissingLocalInput /\ pc \notin {"idle", "extract", "returned"}) =>
        /\ pc = "raised"
        /\ exception = "FileNotFoundError"
        /\ ~encoded
        /\ calls = <<>>
        /\ inflight = {}
        /\ nutrition_data = <<>>
        /\ impact_results = <<>>
        /\ result = NoResult

\* C4 witness: the request on the missing file has raised.
C4_Witness ==
    /\ image_or_url = MissingFile
    /\ pc = "raised"
    /\ exception = "FileNotFoundError"

----------------------------------------------------------------------------
(* Properties of the tools.                                                *)

\* the search request was answered: requests.get returned, no HTTP error
Answered == args.response.error = "none" /\ args.response.status < 400

HasFoods == args.response.has_foods /\ Len(args.response.foods) > 0

\* C5: for an answered search with no "foods" key or an empty "foods" list
\* nutrition_lookup returns (does not raise) the message "No USDA data found
\* for '<name>'." with the queried name; with a non-empty list it never
\* returns that message.
C5_NoDataMessage ==
    tool = "nutrition_lookup" /\ Answered =>
        IF HasFoods
        THEN out.raised \/ out.value.kind # "No USDA data found for"
        ELSE /\ ~out.raised
             /\ out.value = [kind |-> "No USDA data found for",
                             name |-> args.food_name]

\* C5 witness: an answered search whose "foods" list is empty.
C5_Witness ==
    /\ tool = "nutrition_lookup"
    /\ Answered
    /\ args.response.has_foods
    /\ args.response.foods = <<>>
    /\ ~out.raised

FieldNutrient ==
    {<<"calories", "Energy">>,
     <<"carbs", "Carbohydrate, by difference">>,
     <<"sugar", "Sugars, total including NLEA">>,
     <<"fat", "Total lipid (fat)">>,
     <<"protein", "Protein">>,
     <<"fiber", "Fiber, total dietary">>}

FirstEntries ==
    LET first == Head(args.response.foods)
    IN  IF first.has_foodNutrients THEN first.foodNutrients ELSE <<>>

\* C6: with a non-empty "foods" list the record is that of the first entry
\* alone (the same record results when the later entries are dropped), and
\* each of calories, carbs, sugar, fat, protein, fiber is the value of a
\* nutrient of that name in the first entry, 0 if that nutrient carries no
\* value, and 0 if the entry has no nutrient of that name.
C6_FirstEntryFields ==
    tool = "nutrition_lookup" /\ Answered /\ HasFoods =>
        /\ ~out.raised
        /\ out.value.kind = "record"
        /\ out = nutrition_lookup(args.food_name,
                     [args.response EXCEPT !.foods = <<Head(args.response.foods)>>])
        /\ \A p \in FieldNutrient :
              LET named == {k \in DOMAIN FirstEntries :
                               FirstEntries[k].nutrientName = p[2]}
              IN  IF named = {} THEN out.value[p[1]] = 0
                  ELSE \E k \in named :
                          out.value[p[1]] = IF FirstEntries[k].has_value
                                            THEN FirstEntries[k].value ELSE 0

\* C6 witness: two search hits; the first has Protein 2 and an Energy entry
\* without a value and no other nutrient, the second has Protein 1, Energy 1.
C6_Witness ==
    /\ tool = "nutrition_lookup"
    /\ Answered
    /\ Len(args.response.foods) = 2
    /\ args.response.foods[2] = OtherFood
    /\ FirstEntries = <<[nutrientName |-> "Protein", has_value |-> TRUE, value |-> 2],
                        [nutrientName |-> "Energy", has_value |-> FALSE, value |-> 0]>>
    /\ out.value.protein = 2
    /\ out.value.calories = 0
    /\ out.value.carbs = 0

\* the number of tenths a formatted "%.1f" text denotes
Tenths(f) == (IF f[1] = "-" THEN -1 ELSE 1) * (f[2] * 10 + f[3])

\* C7: the reported level is previous_glucose + 1.5 * carbs - 2 * hours and
\* the reported rise is 1.5 * carbs (in tenths of mg/dL); carbs 40, previous
\* glucose 100, 3 hours give 154.0 with a rise of 60.0.
C7_GlucoseFormula ==
    tool = "glucose_predictor" =>
        /\ out.predicted[3] \in 0..9
        /\ out.rise[3] \in 0..9
        /\ Tenths(out.predicted) =
               10 * args.previous_glucose + 15 * args.carbs
                   - 20 * args.hours_since_last_meal
        /\ Tenths(out.rise) = 15 * args.carbs
        /\ (args.carbs = 40 /\ args.previous_glucose = 100
               /\ args.hours_since_last_meal = 3) =>
              /\ out.predicted = <<"", 154, 0>>
              /\ out.rise = <<"", 60, 0>>

\* C7 witness: the prediction for carbs 40, previous glucose 100, 3 hours.
C7_Witness ==
    /\ tool = "glucose_predictor"
    /\ args = [carbs |-> 40, previous_glucose |-> 100, hours_since_last_meal |-> 3]
    /\ out.predicted = <<"", 154, 0>>

\* C8: below 70 the low-glucose message and above 180 the high-glucose
\* message is returned verbatim, whatever the fitness level; from 70 to 180
\* inclusive the answer is a "Glucose safe" recommendation of intensity
\* "moderate" exactly for fitness level "moderate", else "light", for 20, 25
\* or 30 minutes.
C8_ExerciseBands ==
    tool = "exercise_recommender" =>
        IF args.current_glucose < 70
        THEN out = [kind |-> "message",
                    text |-> "Glucose is low! Recommend light activity: 10-15 min walking and have a small snack first."]
        ELSE IF args.current_glucose > 180
        THEN out = [kind |-> "message",
                    text |-> "Glucose is high! Avoid intense exercise. Recommend gentle stretching or short walk."]
        ELSE /\ out.kind = "Glucose safe. Recommend"
             /\ (out.intensity = "moderate") <=> (args.fitness_level = "moderate")
             /\ out.intensity \in {"moderate", "light"}
             /\ out.duration \in {20, 25, 30}

\* C8 witness: glucose exactly 70 is answered with a safe recommendation.
C8_Witness ==
    /\ tool = "exercise_recommender"
    /\ args.current_glucose = 70
    /\ args.fitness_level = "moderate"
    /\ out.kind = "Glucose safe. Recommend"
    /\ out.intensity = "moderate"

kale == <<"k", "a", "l", "e">>

\* what each sample item is to be answered with
ExpectedSuggestion(part) ==
    IF part = bread THEN [item |-> bread, alt |-> "whole grain or almond flour bread"]
    ELSE IF part = <<" ", "r", "i", "c", "e">> THEN [item |-> rice, alt |-> "cauliflower rice"]
    ELSE IF part = <<" ", "k", "a", "l", "e">> THEN [item |-> kale, alt |-> "No alternative needed"]
    ELSE IF part = <<"S", "O", "D", "A", " ">> THEN [item |-> soda, alt |-> "sparkling water with lemon"]
    ELSE IF part = <<"P", "a", "s", "t", "a">>
         THEN [item |-> pasta, alt |-> "zucchini noodles or shirataki noodles"]
    ELSE IF part = sugar THEN [item |-> sugar, alt |-> "stevia or monk fruit sweetener"]
    ELSE [item |-> <<>>, alt |-> "No alternative needed"]

BreadRiceKale ==
    <<"b", "r", "e", "a", "d", ",", " ", "r", "i", "c", "e", ",", " ", "k", "a", "l", "e">>

\* C9: after the header there is one suggestion per comma-separated item, in
\* input order, for the trimmed and lower-cased item: its table alternative
\* for bread, rice, soda, pasta and sugar, "No alternative needed" otherwise;
\* "bread, rice, kale" gives the bread and rice alternatives and no
\* alternative for kale.
C9_GrocerySuggestions ==
    tool = "grocery_advisor" =>
        /\ out.kind = "Grocery Recommendations:"
        /\ Len(out.lines) = Len(args.parts)
        /\ \A i \in 1..Len(args.parts) : out.lines[i] = ExpectedSuggestion(args.parts[i])
        /\ args.items = BreadRiceKale =>
              out.lines = <<[item |-> bread, alt |-> "whole grain or almond flour bread"],
                            [item |-> rice, alt |-> "cauliflower rice"],
                            [item |-> kale, alt |-> "No alternative needed"]>>

\* C9 witness: the advice for "bread, rice, kale".
C9_Witness ==
    /\ tool = "grocery_advisor"
    /\ args.items = BreadRiceKale
    /\ Len(out.lines) = 3

\* the table entry each sample preference is to be answered from
ExpectedEntry(preferences) ==
    IF preferences \in {keto, <<"K", "E", "T", "O">>} THEN keto
    ELSE IF preferences \in {vegan, <<"V", "e", "g", "a", "n">>} THEN vegan
    ELSE IF preferences \in {vegetarian,
                             <<"V", "E", "G", "E", "T", "A", "R", "I", "A", "N">>}
         THEN vegetarian
    ELSE low_carb

\* C10: every preference yields a plan (none fails); one that is keto, vegan,
\* vegetarian or low-carb in any letter case yields that entry's breakfast,
\* lunch, dinner and snack, any other yields those of the low-carb entry.
C10_MealPlanFallback ==
    tool = "meal_plan_generator" =>
        /\ out.kind = "Weekly Meal Plan"
        /\ <<out.breakfast, out.lunch, out.dinner, out.snack>>
               = sample_meals[ExpectedEntry(args.preferences)]

\* C10 witness: the unrecognized preference "paleo" is answered with the
\* low-carb meals.
C10_Witness ==
    /\ tool = "meal_plan_generator"
    /\ args.preferences = <<"p", "a", "l", "e", "o">>
    /\ out.breakfast = "Avocado egg salad"
    /\ out.snack = "Cheese & cucumber slices"

----------------------------------------------------------------------------
(* Properties of the returned structure and of the parsing step.           *)

\* what the lookup of one ingredient can leave in its slot
LookupOutcomes(item) ==
    {IF nutrition_lookup(item, response).raised
     THEN [kind |-> "USDA API error for", item |-> item,
           e |-> nutrition_lookup(item, response).value]
     ELSE nutrition_lookup(item, response).value : response \in PipelineResponses}

\* what the impact analysis of one nutrition entry can leave in its slot
ImpactOutcomes(data) ==
    {[kind |-> "impact", about |-> data]}
    \cup {[kind |-> "Error analyzing impact for", data |-> data, e |-> e] :
             e \in ModelReplies \ {"ok"}}

RaisedAt(op, i) ==
    \E k \in DOMAIN calls : /\ calls[k].op = op
                            /\ calls[k].i = i
                            /\ calls[k].ev = "end"
                            /\ calls[k].raised # "none"

\* C11: a returned result has three lists of one length N, aligned by index:
\* nutrition[i] is an outcome of looking up ingredients[i] (record, no-data
\* message naming it, or lookup error string naming it, the latter exactly
\* when lookup i raised), and diabetic_impact[i] is an outcome of analysing
\* nutrition[i] (model text about it, or impact error string quoting it, the
\* latter exactly when impact call i raised).
C11_ResultListsAligned ==
    pc = "done" =>
        /\ result.ingredients = ingredients_list
        /\ Len(result.nutrition) = Len(result.ingredients)
        /\ Len(result.diabetic_impact) = Len(result.ingredients)
        /\ \A i \in 1..Len(result.ingredients) :
              /\ result.nutrition[i] \in LookupOutcomes(result.ingredients[i])
              /\ (result.nutrition[i].kind = "USDA API error for") <=> RaisedAt("lookup", i)
              /\ result.diabetic_impact[i] \in ImpactOutcomes(result.nutrition[i])
              /\ (result.diabetic_impact[i].kind = "Error analyzing impact for")
                     <=> RaisedAt("impact", i)

\* C11 witness: a returned result for two different ingredients, the first
\* with a lookup error whose impact text was produced, the second with a
\* found record whose impact call failed.
C11_Witness ==
    /\ pc = "done"
    /\ Len(result.ingredients) = 2
    /\ result.ingredients[1] # result.ingredients[2]
    /\ result.nutrition[1].kind = "USDA API error for"
    /\ result.diabetic_impact[1].kind = "impact"
    /\ result.nutrition[2].kind = "record"
    /\ result.diabetic_impact[2].kind = "Error analyzing impact for"

\* C12: once extract_ingredients has returned a response text, whatever the
\* text, the parsing step raises nothing and analyze_food goes on to return
\* its result structure: no exception leaves it, and until it has returned a
\* next step is always possible.
C12_ParsingNeverAborts ==
    TextReturned =>
        /\ exception = "none"
        /\ pc # "raised"
        /\ pc = "done" => result.kind = "dict"
        /\ pc # "done" => ENABLED Next

====
